---- MODULE Spec2Model ----
(***************************************************************************)
(* A model of src/chess_pygame.py: the Board rules engine (move            *)
(* generation, attack detection, legality filtering, move application),    *)
(* the capture-preferring policy choose_ai_move, and the interactive loop  *)
(* ChessUI.run / ChessUI.handle_mouse_click.                               *)
(*                                                                         *)
(* Squares are (row, col) pairs with both coordinates in 0..7, row 0 being *)
(* Black's back rank, exactly as in the source.  A move is a pair          *)
(* <<<<r1, c1>>, <<r2, c2>>>>.  Python's None is modelled by NoPiece for a *)
(* grid cell, by <<>> for an optional square or move, and by NoText for    *)
(* the optional game-over text.                                            *)
(***************************************************************************)
EXTENDS Integers, Sequences, FiniteSets

WHITE == "w"
BLACK == "b"

NoPiece == [color |-> "none", kind |-> "none"]
NoText == "None"
NoSquare == <<>>
NoMove == <<>>

TILE_SIZE == 80
BOARD_SIZE == TILE_SIZE * 8

\* Bounds of the model.
MaxPlies == 6      \* make_move calls explored from the starting position
PosPlies == 2      \* make_move calls explored from a directly set-up board

Piece(color, kind) == [color |-> color, kind |-> kind]

MATERIAL_VALUES == [K |-> 0, Q |-> 9, R |-> 5, B |-> 3, N |-> 3, P |-> 1]

\* dict.get(kind, 0) on MATERIAL_VALUES
material_value(kind) ==
    IF kind \in DOMAIN MATERIAL_VALUES THEN MATERIAL_VALUES[kind] ELSE 0

Opponent(color) == IF color = BLACK THEN WHITE ELSE BLACK

----------------------------------------------------------------------------
(* The grid: a list of 8 rows, each a list of 8 cells. *)

EmptyRow == [c \in 1..8 |-> NoPiece]
EmptyGrid == [r \in 1..8 |-> EmptyRow]

\* self.board[r][c]
At(grid, r, c) == grid[r + 1][c + 1]

\* self.board[r][c] = p
Put(grid, r, c, p) == [grid EXCEPT ![r + 1][c + 1] = p]

\* A variant with the upper bounds one too small.
inside_short(r, c) == 0 <= r /\ r < 7 /\ 0 <= c /\ c < 7

inside(r, c) == 0 <= r /\ r < 8 /\ 0 <= c /\ c < 8

back_rank_order == <<"R", "N", "B", "Q", "K", "B", "N", "R">>

place_starting_position ==
    [r \in 1..8 |->
        [c \in 1..8 |->
            CASE r = 1 -> Piece(BLACK, back_rank_order[c])
              [] r = 2 -> Piece(BLACK, "P")
              [] r = 7 -> Piece(WHITE, "P")
              [] r = 8 -> Piece(WHITE, back_rank_order[c])
              [] OTHER -> NoPiece]]

\* Board.__init__
NewBoard ==
    [board |-> place_starting_position,
     to_move |-> WHITE,
     halfmove_clock |-> 0,
     fullmove_number |-> 1]

\* Board.clone: a fresh grid of fresh pieces, the scalars copied.
clone(b) ==
    [board |-> [r \in 1..8 |-> [c \in 1..8 |->
                    IF b.board[r][c] = NoPiece THEN NoPiece
                    ELSE Piece(b.board[r][c].color, b.board[r][c].kind)]],
     to_move |-> b.to_move,
     halfmove_clock |-> b.halfmove_clock,
     fullmove_number |-> b.fullmove_number]

AllSquares == {<<r, c>> : r \in 0..7, c \in 0..7}

\* sq comes no later than other in the scan "for r ...: for c ...:".
ScansBefore(sq, other) ==
    sq[1] < other[1] \/ (sq[1] = other[1] /\ sq[2] <= other[2])

\* The first square, in scan order, that holds the king of color; the
\* sentinel <<-1, -1>> when none does.
king_position(b, color) ==
    LET king == Piece(color, "K")
        found == {sq \in AllSquares : At(b.board, sq[1], sq[2]) = king}
    IN IF found = {} THEN <<-1, -1>>
       ELSE CHOOSE sq \in found : \A other \in found : ScansBefore(sq, other)

----------------------------------------------------------------------------
(* Attack detection. *)

knight_moves ==
    << <<2, 1>>, <<2, -1>>, <<-2, 1>>, <<-2, -1>>,
       <<1, 2>>, <<1, -2>>, <<-1, 2>>, <<-1, -2>> >>

king_steps ==
    << <<-1, -1>>, <<-1, 0>>, <<-1, 1>>, <<0, -1>>,
       <<0, 1>>, <<1, -1>>, <<1, 0>>, <<1, 1>> >>

diagonals == << <<1, 1>>, <<1, -1>>, <<-1, 1>>, <<-1, -1>> >>
straights == << <<1, 0>>, <<-1, 0>>, <<0, 1>>, <<0, -1>> >>

\* A variant of the ray loop without the break: a piece that is not an
\* attacker along the ray does not stop it.
RECURSIVE ray_attacked_no_break(_, _, _, _, _, _, _)
ray_attacked_no_break(b, rr, cc, dr, dc, attacker_color, kinds) ==
    IF ~inside(rr, cc) THEN FALSE
    ELSE LET p == At(b.board, rr, cc)
         IN \/ p # NoPiece /\ p.color = attacker_color /\ p.kind \in kinds
            \/ ray_attacked_no_break(b, rr + dr, cc + dc, dr, dc,
                                     attacker_color, kinds)

\* The while loop of one ray of is_square_attacked_by: the first piece met
\* decides; kinds is the pair of sliding kinds that attack along the ray.
RECURSIVE ray_attacked(_, _, _, _, _, _, _)
ray_attacked(b, rr, cc, dr, dc, attacker_color, kinds) ==
    IF ~inside(rr, cc) THEN FALSE
    ELSE LET p == At(b.board, rr, cc)
         IN IF p # NoPiece
            THEN p.color = attacker_color /\ p.kind \in kinds
            ELSE ray_attacked(b, rr + dr, cc + dc, dr, dc, attacker_color, kinds)

\* dir of the pawn test of is_square_attacked_by
pawn_attack_dir(attacker_color) == IF attacker_color = WHITE THEN -1 ELSE 1

\* The pawn test of is_square_attacked_by.
pawn_attacked(b, r, c, attacker_color) ==
    \E dc \in {-1, 1} :
        LET rr == r + pawn_attack_dir(attacker_color)
            cc == c + dc
        IN inside(rr, cc)
           /\ At(b.board, rr, cc) = Piece(attacker_color, "P")

\* The two groups of sliding rays of is_square_attacked_by.
sliding_attacked(b, r, c, attacker_color) ==
    \/ \E i \in 1..4 :
          ray_attacked(b, r + diagonals[i][1], c + diagonals[i][2],
                       diagonals[i][1], diagonals[i][2],
                       attacker_color, {"B", "Q"})
    \/ \E i \in 1..4 :
          ray_attacked(b, r + straights[i][1], c + straights[i][2],
                       straights[i][1], straights[i][2],
                       attacker_color, {"R", "Q"})

is_square_attacked_by(b, r, c, attacker_color) ==
    \/ \E i \in 1..8 :
          LET rr == r + knight_moves[i][1]
              cc == c + knight_moves[i][2]
          IN inside(rr, cc)
             /\ At(b.board, rr, cc) = Piece(attacker_color, "N")
    \/ pawn_attacked(b, r, c, attacker_color)
    \/ \E i \in 1..8 :
          LET rr == r + king_steps[i][1]
              cc == c + king_steps[i][2]
          IN inside(rr, cc)
             /\ At(b.board, rr, cc) = Piece(attacker_color, "K")
    \/ sliding_attacked(b, r, c, attacker_color)

\* A variant without the test for the sentinel.
is_in_check_no_sentinel(b, color) ==
    LET k == king_position(b, color)
    IN is_square_attacked_by(b, k[1], k[2], Opponent(color))

is_in_check(b, color) ==
    LET k == king_position(b, color)
    IN IF k[1] = -1 THEN FALSE
       ELSE is_square_attacked_by(b, k[1], k[2], Opponent(color))

----------------------------------------------------------------------------
(* Pseudo-legal move generation (geometry and occupancy only). *)

Range(s) == {s[i] : i \in 1..Len(s)}

Move(r, c, rr, cc) == << <<r, c>>, <<rr, cc>> >>

pawn_dir(color) == IF color = WHITE THEN -1 ELSE 1
pawn_start_row(color) == IF color = WHITE THEN 6 ELSE 1

\* A variant without the two-step advance.
pawn_moves_single(b, r, c, color) ==
    LET rr == r + pawn_dir(color)
        capture(dc) ==
            IF inside(rr, c + dc)
               /\ At(b.board, rr, c + dc) # NoPiece
               /\ At(b.board, rr, c + dc).color # color
            THEN <<Move(r, c, rr, c + dc)>>
            ELSE <<>>
    IN (IF inside(rr, c) /\ At(b.board, rr, c) = NoPiece
        THEN <<Move(r, c, rr, c)>> ELSE <<>>)
       \o capture(-1) \o capture(1)

\* A variant whose two-step advance does not depend on the one-step one.
pawn_moves_jump(b, r, c, color) ==
    LET dir == pawn_dir(color)
        rr == r + dir
        rr2 == r + 2 * dir
        one == IF inside(rr, c) /\ At(b.board, rr, c) = NoPiece
               THEN <<Move(r, c, rr, c)>> ELSE <<>>
        two == IF r = pawn_start_row(color) /\ At(b.board, rr2, c) = NoPiece
               THEN <<Move(r, c, rr2, c)>> ELSE <<>>
        capture(dc) ==
            IF inside(rr, c + dc)
               /\ At(b.board, rr, c + dc) # NoPiece
               /\ At(b.board, rr, c + dc).color # color
            THEN <<Move(r, c, rr, c + dc)>>
            ELSE <<>>
    IN one \o two \o capture(-1) \o capture(1)

pawn_moves(b, r, c, color) ==
    LET dir == pawn_dir(color)
        rr == r + dir
        rr2 == r + 2 * dir
        one == IF inside(rr, c) /\ At(b.board, rr, c) = NoPiece
               THEN <<Move(r, c, rr, c)>>
                    \o (IF r = pawn_start_row(color) /\ At(b.board, rr2, c) = NoPiece
                        THEN <<Move(r, c, rr2, c)>>
                        ELSE <<>>)
               ELSE <<>>
        capture(dc) ==
            IF inside(rr, c + dc)
               /\ At(b.board, rr, c + dc) # NoPiece
               /\ At(b.board, rr, c + dc).color # color
            THEN <<Move(r, c, rr, c + dc)>>
            ELSE <<>>
    IN one \o capture(-1) \o capture(1)

\* The knight and king loops: each offset whose square is on the board and
\* is empty or holds a piece of the other colour, in the order of offsets.
step_moves(b, r, c, color, offsets) ==
    LET cand == [i \in 1..Len(offsets) |->
                    Move(r, c, r + offsets[i][1], c + offsets[i][2])]
        ok(m) == /\ inside(m[2][1], m[2][2])
                 /\ \/ At(b.board, m[2][1], m[2][2]) = NoPiece
                    \/ At(b.board, m[2][1], m[2][2]).color # color
    IN SelectSeq(cand, ok)

\* The while loop of one direction of a sliding piece.
RECURSIVE ray_moves(_, _, _, _, _, _, _, _)
ray_moves(b, r, c, color, rr, cc, dr, dc) ==
    IF ~inside(rr, cc) THEN <<>>
    ELSE LET target == At(b.board, rr, cc)
         IN IF target = NoPiece
            THEN <<Move(r, c, rr, cc)>>
                 \o ray_moves(b, r, c, color, rr + dr, cc + dc, dr, dc)
            ELSE IF target.color # color THEN <<Move(r, c, rr, cc)>> ELSE <<>>

slide_directions(kind) ==
    (IF kind \in {"B", "Q"} THEN diagonals ELSE <<>>)
    \o (IF kind \in {"R", "Q"} THEN straights ELSE <<>>)

RECURSIVE slide_moves(_, _, _, _, _, _)
slide_moves(b, r, c, color, directions, i) ==
    IF i > Len(directions) THEN <<>>
    ELSE ray_moves(b, r, c, color, r + directions[i][1], c + directions[i][2],
                   directions[i][1], directions[i][2])
         \o slide_moves(b, r, c, color, directions, i + 1)

generate_pseudo_legal_moves_from(b, r, c) ==
    LET p == At(b.board, r, c)
    IN CASE p = NoPiece -> <<>>
         [] p.kind = "P" -> pawn_moves(b, r, c, p.color)
         [] p.kind = "N" -> step_moves(b, r, c, p.color, knight_moves)
         [] p.kind \in {"B", "R", "Q"} ->
                slide_moves(b, r, c, p.color, slide_directions(p.kind), 1)
         [] p.kind = "K" -> step_moves(b, r, c, p.color, king_steps)
         [] OTHER -> <<>>

----------------------------------------------------------------------------
(* Move application and the legality filter. *)

\* A variant that promotes only on row 0.
_make_move_no_checks_row0(b, move) ==
    LET p == At(b.board, move[1][1], move[1][2])
        lifted == Put(b.board, move[1][1], move[1][2], NoPiece)
    IN [b EXCEPT !.board =
            IF p.kind = "P" /\ move[2][1] = 0
            THEN Put(lifted, move[2][1], move[2][2], Piece(p.color, "Q"))
            ELSE Put(lifted, move[2][1], move[2][2], p)]

\* A variant that leaves the piece on its source square as well.
_make_move_no_checks_keep_source(b, move) ==
    LET p == At(b.board, move[1][1], move[1][2])
    IN [b EXCEPT !.board =
            IF p.kind = "P" /\ (move[2][1] = 0 \/ move[2][1] = 7)
            THEN Put(b.board, move[2][1], move[2][2], Piece(p.color, "Q"))
            ELSE Put(b.board, move[2][1], move[2][2], p)]

_make_move_no_checks(b, move) ==
    LET r1 == move[1][1]
        c1 == move[1][2]
        r2 == move[2][1]
        c2 == move[2][2]
        p == At(b.board, r1, c1)
        lifted == Put(b.board, r1, c1, NoPiece)
    IN [b EXCEPT !.board =
            IF p.kind = "P" /\ (r2 = 0 \/ r2 = 7)
            THEN Put(lifted, r2, c2, Piece(p.color, "Q"))
            ELSE Put(lifted, r2, c2, p)]

\* A variant that binds b2 to the receiver itself.
clone_target_alias(self_ref, fresh_ref) == self_ref

\* The object that "b2 = self.clone()" binds b2 to: the fresh copy, never
\* the board the method was called on.
clone_target(self_ref, fresh_ref) == fresh_ref

\* A variant that tests for check on the board as it stands, before the
\* move.
is_legal_move_run_unmoved(b, move, color) ==
    LET p == At(b.board, move[1][1], move[1][2])
    IN IF p = NoPiece \/ p.color # color
       THEN [ret |-> FALSE, self |-> b]
       ELSE [ret |-> ~is_in_check(b, color), self |-> b]

\* One call of is_legal_move on the board b, with the two Board objects it
\* touches kept apart: object 1 is self, object 2 the clone.  ret is the
\* value returned, self the contents of the receiver when the call returns.
is_legal_move_run(b, move, color) ==
    LET p == At(b.board, move[1][1], move[1][2])
    IN IF p = NoPiece \/ p.color # color
       THEN [ret |-> FALSE, self |-> b]
       ELSE LET heap1 == <<b, clone(b)>>
                b2 == clone_target(1, 2)
                heap2 == [heap1 EXCEPT ![b2] = _make_move_no_checks(heap1[b2], move)]
            IN [ret |-> ~is_in_check(heap2[b2], color), self |-> heap2[1]]

is_legal_move(b, move, color) == is_legal_move_run(b, move, color).ret

\* The body of the two scan loops of generate_legal_moves for one square.
legal_moves_from(b, color, r, c) ==
    LET p == At(b.board, r, c)
        legal(m) == is_legal_move(b, m, color)
    IN IF p # NoPiece /\ p.color = color
       THEN SelectSeq(generate_pseudo_legal_moves_from(b, r, c), legal)
       ELSE <<>>

legal_moves_row(b, color, r) ==
    legal_moves_from(b, color, r, 0) \o legal_moves_from(b, color, r, 1)
    \o legal_moves_from(b, color, r, 2) \o legal_moves_from(b, color, r, 3)
    \o legal_moves_from(b, color, r, 4) \o legal_moves_from(b, color, r, 5)
    \o legal_moves_from(b, color, r, 6) \o legal_moves_from(b, color, r, 7)

generate_legal_moves(b, color) ==
    legal_moves_row(b, color, 0) \o legal_moves_row(b, color, 1)
    \o legal_moves_row(b, color, 2) \o legal_moves_row(b, color, 3)
    \o legal_moves_row(b, color, 4) \o legal_moves_row(b, color, 5)
    \o legal_moves_row(b, color, 6) \o legal_moves_row(b, color, 7)

\* "not moves" for moves = generate_legal_moves(color): the list is empty
\* exactly when no pseudo-legal move of a piece of color passes
\* is_legal_move.
no_legal_moves(b, color) ==
    ~\E sq \in AllSquares :
        /\ At(b.board, sq[1], sq[2]).color = color
        /\ \E m \in Range(generate_pseudo_legal_moves_from(b, sq[1], sq[2])) :
              is_legal_move(b, m, color)

\* A variant that counts the full move after White's move.
make_move_white_counts(b, move) ==
    LET moving == At(b.board, move[1][1], move[1][2])
        captured == At(b.board, move[2][1], move[2][2])
        after == _make_move_no_checks(b, move)
    IN [after EXCEPT
           !.halfmove_clock =
               IF moving.kind = "P" \/ captured # NoPiece THEN 0
               ELSE b.halfmove_clock + 1,
           !.fullmove_number =
               IF b.to_move = WHITE THEN b.fullmove_number + 1
               ELSE b.fullmove_number,
           !.to_move = IF b.to_move = BLACK THEN WHITE ELSE BLACK]

make_move(b, move) ==
    LET moving == At(b.board, move[1][1], move[1][2])
        captured == At(b.board, move[2][1], move[2][2])
        after == _make_move_no_checks(b, move)
    IN [after EXCEPT
           !.halfmove_clock =
               IF moving.kind = "P" \/ captured # NoPiece THEN 0
               ELSE b.halfmove_clock + 1,
           !.fullmove_number =
               IF b.to_move = BLACK THEN b.fullmove_number + 1
               ELSE b.fullmove_number,
           !.to_move = IF b.to_move = BLACK THEN WHITE ELSE BLACK]

----------------------------------------------------------------------------
(* choose_ai_move *)

\* The loop over moves that keeps the captures of the highest value seen.
\* acc is <<best_capture_value, best_captures>>.
RECURSIVE capture_scan(_, _, _, _)
capture_scan(b, moves, i, acc) ==
    IF i > Len(moves) THEN acc
    ELSE LET target == At(b.board, moves[i][2][1], moves[i][2][2])
             val == material_value(target.kind)
         IN capture_scan(b, moves, i + 1,
                IF target # NoPiece /\ target.color = WHITE
                THEN IF val > acc[1] THEN <<val, <<moves[i]>> >>
                     ELSE IF val = acc[1] THEN <<acc[1], Append(acc[2], moves[i])>>
                     ELSE acc
                ELSE acc)

best_captures(b, moves) == capture_scan(b, moves, 1, <<-1, <<>> >>)[2]

\* A variant that draws from the pseudo-legal moves of Black, unfiltered.
choose_ai_move_unfiltered(b) ==
    LET from(sq) == IF At(b.board, sq[1], sq[2]).color = BLACK
                    THEN Range(generate_pseudo_legal_moves_from(b, sq[1], sq[2]))
                    ELSE {}
        moves == UNION {from(sq) : sq \in AllSquares}
    IN IF moves = {} THEN {NoMove} ELSE moves

\* Every value choose_ai_move can return on b, one for each outcome of
\* random.choice; NoMove stands for None.
choose_ai_move(b) ==
    LET moves == generate_legal_moves(b, BLACK)
        best == best_captures(b, moves)
    IN IF moves = <<>> THEN {NoMove}
       ELSE IF best # <<>> THEN Range(best)
       ELSE Range(moves)

----------------------------------------------------------------------------
(* ChessUI: the state of the interactive loop. *)

VARIABLES
    board,           \* self.board: the Board object (grid, to_move, clocks)
    selected,        \* self.selected: a square, or NoSquare
    legal_targets,   \* self.legal_targets: destinations of the selected piece
    game_over_text,  \* self.game_over_text: a text, or NoText
    plies_left,      \* model bound: make_move calls still explored
    last_move        \* history: the last make_move call (its argument and
                     \* its locals moving and captured), NoLastMove at first

vars == <<board, selected, legal_targets, game_over_text, plies_left, last_move>>

NoLastMove == [move |-> NoMove, moving |-> NoPiece, captured |-> NoPiece]

\* What make_move(move) on b reads before it changes b.
MoveRecord(b, move) ==
    [move |-> move,
     moving |-> At(b.board, move[1][1], move[1][2]),
     captured |-> At(b.board, move[2][1], move[2][2])]

CHECKMATE_WHITE == "Checkmate! White wins."
CHECKMATE_BLACK == "Checkmate! Black wins."
STALEMATE == "Stalemate!"

\* Mouse positions delivered by the event queue: the centre of each square
\* of ClickSquares, and one point of the side panel.
ClickSquares ==
    { <<7, 4>>, <<6, 4>>, <<4, 4>>, <<5, 3>>,
      <<0, 0>>, <<0, 1>>, <<1, 1>>, <<1, 2>>, <<2, 0>>, <<2, 1>>, <<3, 1>> }

Centre(sq) == <<sq[2] * TILE_SIZE + TILE_SIZE \div 2,
                sq[1] * TILE_SIZE + TILE_SIZE \div 2>>

PanelPos == <<BOARD_SIZE + TILE_SIZE, TILE_SIZE>>

ClickPositions == {Centre(sq) : sq \in ClickSquares} \cup {PanelPos}

\* ChessUI.__init__
Init ==
    /\ board = NewBoard
    /\ selected = NoSquare
    /\ legal_targets = <<>>
    /\ game_over_text = NoText
    /\ plies_left = MaxPlies
    /\ last_move = NoLastMove

\* The targets select_square collects for (r, c): the destinations of the
\* moves of generate_legal_moves(WHITE) whose source is (r, c), which are
\* the moves that list gathers at (r, c), in the same order.
targets_from(b, r, c) ==
    LET mine == legal_moves_from(b, WHITE, r, c)
    IN [i \in 1..Len(mine) |-> mine[i][2]]

select_square(r, c) ==
    /\ selected' = <<r, c>>
    /\ legal_targets' = targets_from(board, r, c)
    /\ UNCHANGED <<board, game_over_text, plies_left, last_move>>

\* A variant with the two outcomes of the check test exchanged.
game_end_text_swapped(b, side, win_text, old) ==
    IF no_legal_moves(b, side)
    THEN IF is_in_check(b, side) THEN STALEMATE ELSE win_text
    ELSE old

\* A variant that forgets the stalemate case.
game_end_text_checkmate_only(b, side, win_text, old) ==
    IF no_legal_moves(b, side) /\ is_in_check(b, side) THEN win_text ELSE old

\* The end-of-game test both movers run after their make_move: the text
\* for the side now to move, or old when that side still has a move.
game_end_text(b, side, win_text, old) ==
    IF no_legal_moves(b, side)
    THEN IF is_in_check(b, side) THEN win_text ELSE STALEMATE
    ELSE old

handle_mouse_click(pos) ==
    LET x == pos[1]
        y == pos[2]
        c == x \div TILE_SIZE
        r == y \div TILE_SIZE
    IN IF x >= BOARD_SIZE \/ ~inside(r, c)
       THEN UNCHANGED vars
       ELSE IF selected # NoSquare
       THEN IF <<r, c>> \in Range(legal_targets)
            THEN LET move == <<selected, <<r, c>>>>
                     after == make_move(board, move)
                 IN /\ board' = after
                    /\ selected' = NoSquare
                    /\ legal_targets' = <<>>
                    /\ game_over_text' =
                           game_end_text(after, BLACK, CHECKMATE_WHITE, game_over_text)
                    /\ plies_left' = plies_left - 1
                    /\ last_move' = MoveRecord(board, move)
            ELSE LET p == At(board.board, r, c)
                 IN IF p # NoPiece /\ p.color = board.to_move /\ board.to_move = WHITE
                    THEN select_square(r, c)
                    ELSE /\ selected' = NoSquare
                         /\ legal_targets' = <<>>
                         /\ UNCHANGED <<board, game_over_text, plies_left, last_move>>
       ELSE IF board.to_move # WHITE
       THEN UNCHANGED vars
       ELSE IF At(board.board, r, c) # NoPiece /\ At(board.board, r, c).color = WHITE
       THEN select_square(r, c)
       ELSE UNCHANGED vars

\* A variant that hands every left click on.
click_accepted_always == TRUE

\* run: the condition under which a left click is handed to
\* handle_mouse_click.
click_accepted == game_over_text = NoText

\* A variant that does not look at the side to move.
ai_turn_due_any_side == game_over_text = NoText

\* run: the condition under which the frame ends with a turn of the AI.
ai_turn_due == game_over_text = NoText /\ board.to_move = BLACK

\* The frames are explored until the bound on make_move calls is used up.
WithinBound == plies_left > 0

\* run: one MOUSEBUTTONDOWN event of the frame's event loop.
Click(pos) ==
    /\ WithinBound
    /\ IF click_accepted THEN handle_mouse_click(pos) ELSE UNCHANGED vars

\* run: the AI's part of a frame.
AITurn ==
    /\ WithinBound
    /\ ai_turn_due
    /\ \E move \in choose_ai_move(board) :
          IF move = NoMove
          THEN /\ game_over_text' =
                      IF is_in_check(board, BLACK) THEN CHECKMATE_WHITE ELSE STALEMATE
               /\ UNCHANGED <<board, selected, legal_targets, plies_left, last_move>>
          ELSE LET after == make_move(board, move)
               IN /\ board' = after
                  /\ game_over_text' =
                         game_end_text(after, WHITE, CHECKMATE_BLACK, game_over_text)
                  /\ plies_left' = plies_left - 1
                  /\ last_move' = MoveRecord(board, move)
                  /\ UNCHANGED <<selected, legal_targets>>

Next ==
    \/ \E pos \in ClickPositions : Click(pos)
    \/ AITurn

\* The game from the starting position.  A QUIT event ends the process;
\* a behaviour that stops is a stuttering one.
Spec == Init /\ [][Next]_vars

----------------------------------------------------------------------------
(* Boards set up directly on a new Board object (the grid cleared, a few  *)
(* pieces placed, the side to move chosen), on which the same loop runs.   *)

\* Some piece of color by has a pseudo-legal move onto (r, c).
CanBeCaptured(b, r, c, by) ==
    \E sq \in AllSquares :
        /\ At(b.board, sq[1], sq[2]).color = by
        /\ \E m \in Range(generate_pseudo_legal_moves_from(b, sq[1], sq[2])) :
              m[2] = <<r, c>>

\* The king of color stands on a square a piece of the other colour could
\* capture on.
KingCapturable(b, color) ==
    LET k == king_position(b, color)
    IN k[1] # -1 /\ CanBeCaptured(b, k[1], k[2], Opponent(color))

PosKings ==
    { [wk |-> <<0, 0>>, bk |-> <<1, 2>>], [wk |-> <<1, 2>>, bk |-> <<0, 0>>] }

PosExtraPieces ==
    { Piece(WHITE, "Q"), Piece(BLACK, "Q"), Piece(WHITE, "P"), Piece(BLACK, "P") }

PosExtraSquares == { <<3, 1>>, <<1, 1>>, <<6, 1>> }

PosBoard(kings, p, sq, side) ==
    [board |-> Put(Put(Put(EmptyGrid, kings.wk[1], kings.wk[2], Piece(WHITE, "K")),
                       kings.bk[1], kings.bk[2], Piece(BLACK, "K")),
                   sq[1], sq[2], p),
     to_move |-> side,
     halfmove_clock |-> 0,
     fullmove_number |-> 1]

\* The set-up boards: both kings and one more piece, the side that is not
\* to move not standing with its king capturable.
PosBoards ==
    { b \in { PosBoard(kings, p, sq, side) :
                kings \in PosKings, p \in PosExtraPieces,
                sq \in PosExtraSquares, side \in {WHITE, BLACK} } :
        ~KingCapturable(b, Opponent(b.to_move)) }

InitPos ==
    /\ board \in PosBoards
    /\ selected = NoSquare
    /\ legal_targets = <<>>
    /\ game_over_text = NoText
    /\ plies_left = PosPlies
    /\ last_move = NoLastMove

SpecPos == InitPos /\ [][Next]_vars

----------------------------------------------------------------------------
(* Scenario boards: the kings-only position, the position one Black move  *)
(* before the stalemate of the lone White king on a1, and a family with    *)
(* the White king on e1, a Black piece on the e-file or on the a5-e1       *)
(* diagonal and, possibly, a piece standing in between.                    *)

SetUp(grid, side) ==
    [board |-> grid, to_move |-> side, halfmove_clock |-> 0, fullmove_number |-> 1]

TwoKingsGrid ==
    Put(Put(EmptyGrid, 7, 0, Piece(WHITE, "K")), 0, 7, Piece(BLACK, "K"))

\* White king a1, Black king c2, Black queen b3.
StalemateGrid ==
    Put(Put(Put(EmptyGrid, 7, 0, Piece(WHITE, "K")), 6, 2, Piece(BLACK, "K")),
        5, 1, Piece(BLACK, "Q"))

\* The same with the queen still on h3.
PreStalemateGrid ==
    Put(Put(Put(EmptyGrid, 7, 0, Piece(WHITE, "K")), 6, 2, Piece(BLACK, "K")),
        5, 7, Piece(BLACK, "Q"))

RayAttackers == { Piece(BLACK, "R"), Piece(BLACK, "B"), Piece(BLACK, "Q") }

RayAttackerSquares == { <<3, 4>>, <<3, 0>> }      \* e5, a5

RayBlockers == { NoPiece, Piece(WHITE, "N"), Piece(BLACK, "B") }

RayBlockerSquares == { <<5, 4>>, <<5, 2>> }       \* e3, c3

RayGrid(attacker, asq, blocker, bsq) ==
    Put(Put(Put(Put(EmptyGrid, 7, 4, Piece(WHITE, "K")), 0, 0, Piece(BLACK, "K")),
            asq[1], asq[2], attacker),
        bsq[1], bsq[2], blocker)

\* The scenario boards on which the side to move has a legal move and the
\* other side's king cannot be captured.
ScenBoards ==
    { b \in { SetUp(TwoKingsGrid, WHITE), SetUp(PreStalemateGrid, BLACK) }
             \cup { SetUp(RayGrid(attacker, asq, blocker, bsq), WHITE) :
                        attacker \in RayAttackers, asq \in RayAttackerSquares,
                        blocker \in RayBlockers, bsq \in RayBlockerSquares } :
        /\ ~KingCapturable(b, Opponent(b.to_move))
        /\ ~no_legal_moves(b, b.to_move) }

InitScen ==
    /\ board \in ScenBoards
    /\ selected = NoSquare
    /\ legal_targets = <<>>
    /\ game_over_text = NoText
    /\ plies_left = PosPlies
    /\ last_move = NoLastMove

ScenClickSquares ==
    { <<7, 0>>, <<6, 0>>, <<6, 1>>, <<7, 1>>, <<7, 4>>, <<6, 4>>, <<7, 3>> }

ScenClickPositions == {Centre(sq) : sq \in ScenClickSquares} \cup {PanelPos}

NextScen ==
    \/ \E pos \in ScenClickPositions : Click(pos)
    \/ AITurn

SpecScen == InitScen /\ [][NextScen]_vars

----------------------------------------------------------------------------
(* Properties. *)

Colors == {WHITE, BLACK}

\* C1: no move of generate_legal_moves(color), applied by
\* _make_move_no_checks, leaves the king of color on a square that a piece
\* of the other colour could capture on in one move.
C1_LegalMovesKeepKingSafe ==
    \A color \in Colors :
        \A m \in Range(generate_legal_moves(board, color)) :
            ~KingCapturable(_make_move_no_checks(board, m), color)

KingCount(b, color) ==
    Cardinality({sq \in AllSquares : At(b.board, sq[1], sq[2]) = Piece(color, "K")})

\* C2: every board reached holds exactly one White king and exactly one
\* Black king.
C2_OneKingOfEachColor ==
    KingCount(board, WHITE) = 1 /\ KingCount(board, BLACK) = 1

\* C3: for every occupied square, is_square_attacked_by for the colour
\* opposite to the occupant is true exactly when a piece of that colour has
\* a pseudo-legal move onto the square.
C3_AttackAgreesWithGenerator ==
    \A sq \in AllSquares :
        LET p == At(board.board, sq[1], sq[2])
        IN p # NoPiece =>
              (is_square_attacked_by(board, sq[1], sq[2], Opponent(p.color))
                  <=> CanBeCaptured(board, sq[1], sq[2], Opponent(p.color)))

LastRow(color) == IF color = WHITE THEN 0 ELSE 7

NoPawnOnLastRank(b) ==
    \A c \in 0..7 : At(b.board, 0, c).kind # "P" /\ At(b.board, 7, c).kind # "P"

\* The piece that stands on the destination after the piece moving has been
\* moved there.
Arrived(moving, dst) ==
    IF moving.kind = "P" /\ dst[1] = LastRow(moving.color)
    THEN Piece(moving.color, "Q")
    ELSE moving

\* C4: after every move the destination holds a Queen of the mover's colour
\* if a pawn reached its last rank and the moved piece itself otherwise,
\* and no pawn stands on row 0 or row 7.
C4_PromotionToQueen ==
    /\ NoPawnOnLastRank(board)
    /\ last_move.move # NoMove =>
          At(board.board, last_move.move[2][1], last_move.move[2][2])
              = Arrived(last_move.moving, last_move.move[2])

\* A pawn has just been promoted.
C4_Witness ==
    /\ last_move.moving.kind = "P"
    /\ last_move.move[2][1] = LastRow(last_move.moving.color)
    /\ At(board.board, last_move.move[2][1], last_move.move[2][2]).kind = "Q"

\* C5: choose_ai_move returns None exactly when generate_legal_moves(BLACK)
\* is empty, and otherwise only elements of generate_legal_moves(BLACK).
C5_AiMoveIsLegal ==
    LET legal == generate_legal_moves(board, BLACK)
        outcomes == choose_ai_move(board)
    IN /\ (NoMove \in outcomes) <=> (legal = <<>>)
       /\ legal = <<>> => outcomes = {NoMove}
       /\ legal # <<>> => outcomes # {} /\ outcomes \subseteq Range(legal)

\* The loop has called choose_ai_move on a board without a legal Black move
\* and has got None.
C5_Witness ==
    /\ game_over_text # NoText
    /\ last_move = NoLastMove
    /\ choose_ai_move(board) = {NoMove}

\* The text the claim expects once mover has moved on b.
ExpectedText(b, mover) ==
    IF generate_legal_moves(b, b.to_move) = <<>>
    THEN IF is_in_check(b, b.to_move)
         THEN IF mover = WHITE THEN CHECKMATE_WHITE ELSE CHECKMATE_BLACK
         ELSE STALEMATE
    ELSE NoText

C7_TerminalAbsorbing ==
    [][game_over_text # NoText => vars' = vars]_vars

\* The game is over by checkmate of White while events are still delivered.
C7_Witness ==
    /\ game_over_text = CHECKMATE_BLACK
    /\ WithinBound

\* All pseudo-legal moves of the pieces of color, in scan order.
PseudoLegalRow(b, color, r) ==
    LET from(c) == IF At(b.board, r, c).color = color
                   THEN generate_pseudo_legal_moves_from(b, r, c)
                   ELSE <<>>
    IN from(0) \o from(1) \o from(2) \o from(3)
       \o from(4) \o from(5) \o from(6) \o from(7)

PseudoLegalMoves(b, color) ==
    PseudoLegalRow(b, color, 0) \o PseudoLegalRow(b, color, 1)
    \o PseudoLegalRow(b, color, 2) \o PseudoLegalRow(b, color, 3)
    \o PseudoLegalRow(b, color, 4) \o PseudoLegalRow(b, color, 5)
    \o PseudoLegalRow(b, color, 6) \o PseudoLegalRow(b, color, 7)

\* C8: on the starting position White has exactly 20 pseudo-legal moves,
\* all different, and generate_legal_moves(WHITE) is that same list.
C8_TwentyOpeningMoves ==
    board.board = place_starting_position =>
        /\ Len(PseudoLegalMoves(board, WHITE)) = 20
        /\ Cardinality(Range(PseudoLegalMoves(board, WHITE))) = 20
        /\ generate_legal_moves(board, WHITE) = PseudoLegalMoves(board, WHITE)

\* select_square has computed the targets of the e-pawn on the starting
\* position.
C8_Witness ==
    /\ board.board = place_starting_position
    /\ selected = <<6, 4>>
    /\ legal_targets = << <<5, 4>>, <<4, 4>> >>

\* C9: a call of is_legal_move, for any colour and any pseudo-legal move of
\* that colour, leaves the grid, to_move and the clocks of the board it is
\* called on as they were: the speculative move is made on the clone.
C9_ReadsDoNotMutate ==
    \A color \in Colors :
        \A m \in Range(PseudoLegalMoves(board, color)) :
            is_legal_move_run(board, m, color).self = board

\* select_square has run generate_legal_moves, and with it is_legal_move on
\* moves that change the grid they are made on.
C9_Witness ==
    /\ selected # NoSquare
    /\ legal_targets # <<>>
    /\ \E m \in Range(PseudoLegalMoves(board, WHITE)) :
          _make_move_no_checks(board, m).board # board.board

\* The number of make_move calls since the new Board was made.
MovesMade == MaxPlies - plies_left

\* C10: a make_move resets halfmove_clock if the moving piece is a pawn or
\* the destination was occupied and increments it otherwise, increments
\* fullmove_number exactly after Black's move and toggles to_move; after n
\* calls on a new Board, White is to move iff n is even and
\* fullmove_number is 1 + n \div 2.
C10_ClockAndTurn ==
    /\ [](/\ (board.to_move = WHITE <=> MovesMade % 2 = 0)
          /\ board.fullmove_number = 1 + MovesMade \div 2)
    /\ [][plies_left' # plies_left =>
            LET m == last_move'.move
                moving == At(board.board, m[1][1], m[1][2])
                target == At(board.board, m[2][1], m[2][2])
            IN /\ board'.halfmove_clock =
                      IF moving.kind = "P" \/ target # NoPiece THEN 0
                      ELSE board.halfmove_clock + 1
               /\ board'.fullmove_number =
                      IF board.to_move = BLACK THEN board.fullmove_number + 1
                      ELSE board.fullmove_number
               /\ board'.to_move = Opponent(board.to_move)]_vars

\* Black has just captured with a piece, after both kinds of clock update
\* have happened.
C10_Witness ==
    /\ last_move.moving.color = BLACK
    /\ last_move.moving.kind # "P"
    /\ last_move.captured # NoPiece
    /\ board.halfmove_clock = 0
    /\ board.fullmove_number = 3

\* The capture value of a Black move on b: the material value of the White
\* piece on its destination, 0 when the destination holds none.
CaptureValue(b, m) ==
    LET target == At(b.board, m[2][1], m[2][2])
    IN IF target # NoPiece /\ target.color = WHITE
       THEN material_value(target.kind) ELSE 0

\* C11: if a legal Black move captures a White piece of positive material
\* value, every move choose_ai_move can return captures a piece of the
\* highest value any legal move captures; if no legal move has a positive
\* capture value, the moves choose_ai_move can return are all the legal
\* Black moves.  Stated of the boards the loop calls choose_ai_move on.
C11_AiCapturePreference ==
    LET legal == Range(generate_legal_moves(board, BLACK))
        outcomes == choose_ai_move(board)
    IN ai_turn_due /\ legal # {} =>
          IF \E m \in legal : CaptureValue(board, m) > 0
          THEN \A m \in outcomes :
                  \A other \in legal :
                      CaptureValue(board, m) >= CaptureValue(board, other)
          ELSE outcomes = legal

\* C12: on the board holding only the White king on a1, the Black king on
\* c2 and the Black queen on b3, with White to move,
\* generate_legal_moves(WHITE) is empty and is_in_check(WHITE) is false, the
\* end-of-game test yields the stalemate text, and the loop has set it.
C12_StalemateScenario ==
    board.board = StalemateGrid /\ board.to_move = WHITE =>
        /\ generate_legal_moves(board, WHITE) = <<>>
        /\ ~is_in_check(board, WHITE)
        /\ game_end_text(board, WHITE, CHECKMATE_BLACK, NoText) = STALEMATE
        /\ game_over_text = STALEMATE

\* The queen has just gone from h3 to b3 and the loop has run its
\* end-of-game test on the position.
C12_Witness ==
    /\ board.board = StalemateGrid
    /\ board.to_move = WHITE
    /\ last_move.move = << <<5, 7>>, <<5, 1>> >>

\* C13: on the board holding only the White king on a1 and the Black king
\* on h8, with White to move, White is not in check, the end-of-game test
\* sets no text, and generate_legal_moves(WHITE) consists of exactly the
\* three king moves to a2, b1 and b2.
C13_TwoKingsScenario ==
    board.board = TwoKingsGrid /\ board.to_move = WHITE =>
        /\ ~is_in_check(board, WHITE)
        /\ Len(generate_legal_moves(board, WHITE)) = 3
        /\ Range(generate_legal_moves(board, WHITE))
              = { Move(7, 0, 6, 0), Move(7, 0, 7, 1), Move(7, 0, 6, 1) }
        /\ game_end_text(board, WHITE, CHECKMATE_BLACK, NoText) = NoText

\* select_square has collected the targets of the king on a1.
C13_Witness ==
    /\ board.board = TwoKingsGrid
    /\ board.to_move = WHITE
    /\ selected = <<7, 0>>
    /\ Len(legal_targets) = 3

\* The piece on the first occupied square of the ray from (r, c) in
\* direction d; NoPiece when the ray is empty.
FirstOnRay(b, r, c, d) ==
    LET occupied == {k \in 1..7 : /\ inside(r + k * d[1], c + k * d[2])
                                  /\ At(b.board, r + k * d[1], c + k * d[2]) # NoPiece}
    IN IF occupied = {} THEN NoPiece
       ELSE LET k == CHOOSE n \in occupied : \A other \in occupied : n <= other
            IN At(b.board, r + k * d[1], c + k * d[2])

\* The first pieces on the rays from (r, c) in the given directions.
FirstOnRays(b, r, c, directions) ==
    {FirstOnRay(b, r, c, d) : d \in Range(directions)}

\* A Black rook on e5 and the White king on e1, e2 and e4 empty.
RookFacesKing(b) ==
    /\ At(b.board, 3, 4) = Piece(BLACK, "R")
    /\ At(b.board, 7, 4) = Piece(WHITE, "K")
    /\ At(b.board, 6, 4) = NoPiece
    /\ At(b.board, 4, 4) = NoPiece

\* C14: for every square and attacking colour, the sliding part of
\* is_square_attacked_by reports an attack exactly when, on one of the four
\* orthogonal rays, the first occupied square holds a rook or queen of that
\* colour or, on one of the four diagonal rays, a bishop or queen of that
\* colour; on the set-up boards with a Black rook on e5 and the White king
\* on e1 the king is attacked exactly when e3 is empty.
C14_SlidingRaysBlocked ==
    /\ \A sq \in AllSquares :
          \A orthogonal \in {FirstOnRays(board, sq[1], sq[2], straights)} :
          \A diagonal \in {FirstOnRays(board, sq[1], sq[2], diagonals)} :
          \A color \in Colors :
              sliding_attacked(board, sq[1], sq[2], color)
                 <=> \/ \E p \in orthogonal : p.color = color /\ p.kind \in {"R", "Q"}
                     \/ \E p \in diagonal : p.color = color /\ p.kind \in {"B", "Q"}
    /\ last_move = NoLastMove /\ RookFacesKing(board) =>
          (is_square_attacked_by(board, 7, 4, BLACK) <=> At(board.board, 5, 4) = NoPiece)

\* The rook on e5 is shut off by a piece on e3, and select_square has found
\* e2 to be a legal target of the king.
C14_Witness ==
    /\ RookFacesKing(board)
    /\ At(board.board, 5, 4) # NoPiece
    /\ selected = <<7, 4>>
    /\ <<6, 4>> \in Range(legal_targets)

\* A pawn of color stands on (r, c).
PawnOn(b, r, c, color) ==
    inside(r, c) /\ At(b.board, r, c) = Piece(color, "P")

\* C15: the pawn test of is_square_attacked_by reports an attack by White
\* on (r, c) exactly when a White pawn stands on (r+1, c-1) or (r+1, c+1),
\* and an attack by Black exactly when a Black pawn stands on (r-1, c-1) or
\* (r-1, c+1).
C15_PawnAttackDirection ==
    \A sq \in AllSquares :
        /\ pawn_attacked(board, sq[1], sq[2], WHITE)
              <=> \/ PawnOn(board, sq[1] + 1, sq[2] - 1, WHITE)
                  \/ PawnOn(board, sq[1] + 1, sq[2] + 1, WHITE)
        /\ pawn_attacked(board, sq[1], sq[2], BLACK)
              <=> \/ PawnOn(board, sq[1] - 1, sq[2] - 1, BLACK)
                  \/ PawnOn(board, sq[1] - 1, sq[2] + 1, BLACK)

\* The square (r, c) is on the board and empty.
EmptyAt(b, r, c) == inside(r, c) /\ At(b.board, r, c) = NoPiece

\* The square (r, c) is on the board and holds a piece of the colour
\* opposite to color.
OpposingAt(b, r, c, color) ==
    inside(r, c) /\ At(b.board, r, c).color = Opponent(color)

\* The moves the claim expects of the pawn of color on (r, c); fwd is -1 for
\* White and 1 for Black.
ExpectedPawnMoves(b, r, c, color) ==
    LET fwd == IF color = WHITE THEN -1 ELSE 1
        home == IF color = WHITE THEN 6 ELSE 1
    IN (IF EmptyAt(b, r + fwd, c) THEN {Move(r, c, r + fwd, c)} ELSE {})
       \cup (IF r = home /\ EmptyAt(b, r + fwd, c) /\ EmptyAt(b, r + 2 * fwd, c)
             THEN {Move(r, c, r + 2 * fwd, c)} ELSE {})
       \cup {Move(r, c, r + fwd, c + dc) : dc \in
                 {d \in {-1, 1} : OpposingAt(b, r + fwd, c + d, color)}}

\* C16: for every pawn on the board, generate_pseudo_legal_moves_from
\* yields, each once, the one-step advance iff the square ahead is on the
\* board and empty, the two-step advance iff the pawn is on its starting
\* row and both squares ahead are empty, and a diagonal-forward move iff
\* that square is on the board and holds an opposing piece, and nothing
\* else.
C16_PawnMoveGeneration ==
    \A sq \in AllSquares :
        LET p == At(board.board, sq[1], sq[2])
            moves == generate_pseudo_legal_moves_from(board, sq[1], sq[2])
        IN p.kind = "P" =>
              /\ Range(moves) = ExpectedPawnMoves(board, sq[1], sq[2], p.color)
              /\ Len(moves) = Cardinality(Range(moves))
              /\ \A m \in Range(moves) : inside(m[2][1], m[2][2])

\* A pawn on its starting row stands behind an occupied square with the
\* square two ahead empty, and another pawn has a capture to make.
C16_Witness ==
    /\ \E c \in 0..7 : \E color \in Colors :
          LET home == IF color = WHITE THEN 6 ELSE 1
              fwd == IF color = WHITE THEN -1 ELSE 1
          IN /\ At(board.board, home, c) = Piece(color, "P")
             /\ At(board.board, home + fwd, c) # NoPiece
             /\ At(board.board, home + 2 * fwd, c) = NoPiece
    /\ \E sq \in AllSquares :
          /\ At(board.board, sq[1], sq[2]).kind = "P"
          /\ \E m \in Range(generate_pseudo_legal_moves_from(board, sq[1], sq[2])) :
                m[2][2] # sq[2]

\* C17: when color has no king on the board, king_position returns
\* <<-1, -1>>, is_in_check(color) is false, generate_legal_moves(color) is
\* the list of all pseudo-legal moves of color, and the end-of-game test
\* for color never yields a checkmate text.
C17_MissingKing ==
    \A color \in Colors :
        KingCount(board, color) = 0 =>
            /\ king_position(board, color) = <<-1, -1>>
            /\ ~is_in_check(board, color)
            /\ generate_legal_moves(board, color) = PseudoLegalMoves(board, color)
            /\ game_end_text(board, color,
                             IF color = WHITE THEN CHECKMATE_BLACK ELSE CHECKMATE_WHITE,
                             NoText) \in {NoText, STALEMATE}

\* The White king has just been captured and the loop has run its
\* end-of-game test for White.
C17_Witness ==
    /\ KingCount(board, WHITE) = 0
    /\ last_move.captured = Piece(WHITE, "K")
    /\ game_over_text = NoText

\* C18: every make_move the loop executes is, on the board as it is at
\* that moment, an element of generate_legal_moves(to_move) and moves a
\* piece of the colour to move; the first move is White's and each later
\* one is made by the colour that did not make the one before.  (A move
\* is in generate_legal_moves(to_move) iff the scan gathers it at its
\* source square.)
C18_MovesAlternate ==
    [][plies_left' # plies_left =>
          LET m == last_move'.move
          IN /\ m \in Range(legal_moves_from(board, board.to_move, m[1][1], m[1][2]))
             /\ At(board.board, m[1][1], m[1][2]).color = board.to_move
             /\ last_move'.moving.color =
                    IF last_move.move = NoMove THEN WHITE
                    ELSE Opponent(last_move.moving.color)]_vars

\* White has made a second move, after a reply of the AI, through a new
\* selection.
C18_Witness ==
    /\ MovesMade >= 3
    /\ last_move.moving.color = WHITE
    /\ board.to_move = BLACK

\* C19: in every state of the loop in which the game-over text is not set,
\* the side to move has a legal move, and when a turn of the AI is due
\* choose_ai_move cannot return None.
C19_UnfinishedGameHasMove ==
    game_over_text = NoText =>
        /\ ~no_legal_moves(board, board.to_move)
        /\ generate_legal_moves(board, board.to_move) # <<>>
        /\ ai_turn_due => NoMove \notin choose_ai_move(board)

\* The AI has been called and has moved, and the game goes on.
C19_Witness ==
    /\ last_move.moving.color = BLACK
    /\ game_over_text = NoText
    /\ board.to_move = WHITE
    /\ WithinBound

\* The number of pieces of color on b.
PieceCount(b, color) ==
    Cardinality({sq \in AllSquares : At(b.board, sq[1], sq[2]).color = color})

\* C20: a make_move of the loop empties the source square, changes the
\* destination square and leaves the other 62 squares as they were; the
\* destination did not hold a piece of the mover's colour; the mover's
\* piece count is unchanged and the opponent's is one less if the
\* destination was occupied and unchanged otherwise.
C20_MoveFrame ==
    [][plies_left' # plies_left =>
          LET m == last_move'.move
              mover == board.to_move
              target == At(board.board, m[2][1], m[2][2])
          IN /\ At(board'.board, m[1][1], m[1][2]) = NoPiece
             /\ At(board'.board, m[2][1], m[2][2]) # target
             /\ \A sq \in AllSquares \ {m[1], m[2]} :
                   At(board'.board, sq[1], sq[2]) = At(board.board, sq[1], sq[2])
             /\ target.color # mover
             /\ PieceCount(board', mover) = PieceCount(board, mover)
             /\ PieceCount(board', Opponent(mover)) =
                    PieceCount(board, Opponent(mover))
                       - (IF target # NoPiece THEN 1 ELSE 0)]_vars

\* A piece has just been captured.
C20_Witness ==
    /\ last_move.move # NoMove
    /\ last_move.captured # NoPiece
    /\ PieceCount(board, board.to_move) = 1

====
